---- MODULE Spec2Model ----
(***************************************************************************)
(* Model of the two streaming turning-point detectors of jarilla:          *)
(*   - RealTimeExtremeDetector (src/quant_stats/extremos_realtime.py)      *)
(*   - ZigzagDetector          (src/quant_stats/zigzag_detector.py)        *)
(* Prices are integers; every floating-point quotient of the source is     *)
(* compared by exact cross-multiplication, so no rounding is modelled.     *)
(* An Optional value is a sequence of length 0 (None) or 1.                *)
(***************************************************************************)
EXTENDS Integers, Sequences, FiniteSets, TLC

VARIABLES
    made,       \* the RealTimeExtremeDetector constructor call and its outcome
    det,        \* the RealTimeExtremeDetector object (self)
    ext_stream, \* every price handed to det's add_price, in order
    ext_found,  \* Optional: what _detect_extremo returned in the last add_price
    ext_ret,    \* the list the last add_price returned (nuevos_confirmados)
    ext_dropped, \* every extremo set to INVALIDATED so far, in order
    zz,         \* the ZigzagDetector object (self)
    zz_stream,  \* every price handed to zz's add_price since construction/reset
    zz_ret,     \* Optional: the pivot the last add_price returned
    zz_raised,  \* the exception the last ZigzagDetector call raised, or "none"
    zz_was_reset \* reset() has been called on a detector that had seen samples

vars == <<made, det, ext_stream, ext_found, ext_ret, ext_dropped,
          zz, zz_stream, zz_ret, zz_raised, zz_was_reset>>

ext_vars == <<made, det, ext_stream, ext_found, ext_ret, ext_dropped>>

zz_vars == <<zz, zz_stream, zz_ret, zz_raised, zz_was_reset>>

----------------------------------------------------------------------------
(* Bounds and input sets *)

\* longest stream fed to the window detector
MaxLen == 8

\* longest stream fed to the zigzag detector
ZMaxLen == 6

\* constructor arguments tried, valid and invalid
CtorWindowSizes == -4 .. 7

CtorConfirmations == -5 .. 4

\* configurations of the running window detector (the documented domain)
WindowSizes == {3, 5}

ConfirmationPeriods == {1, 2, 3}

\* min_strength as a fraction <<numerator, denominator>>
MinStrengths == {<<0, 1>>, <<1, 2>>}

ExtPrices == {-1, 1, 5}

\* the prices a strictly increasing stream is drawn from
IncreasingPrices == -2 .. 7

ZPrices == {0, 90, 100, 110, 120}

\* the longer streams: at most ZLongLen prices out of ZNearPrices
ZLongLen == 9

ZNearPrices == {90, 100, 110}

ZModes == {"percentage", "pips", "absolute"}

\* the min_change_pct constructor argument
ZMinChanges == {10, 25}

\* the min_change_pips and pip_value constructor arguments (pip_value a fraction)
ZMinChangePips == {15}

ZPipValues == {<<1, 1>>}

----------------------------------------------------------------------------
(* Python list helpers *)

Abs(x) == IF x < 0 THEN -x ELSE x

Max2(a, b) == IF a >= b THEN a ELSE b

\* s[-n:] for n >= 0 (s[-0:] is the whole list)
LastN(s, n) ==
    IF n = 0 \/ n >= Len(s) THEN s ELSE SubSeq(s, Len(s) - n + 1, Len(s))

\* s[k:] for a 0-based k >= 0
From(s, k) == SubSeq(s, k + 1, Len(s))

RECURSIVE SumSeq(_)
SumSeq(s) == IF s = <<>> THEN 0 ELSE Head(s) + SumSeq(Tail(s))

\* max(s) and min(s) of a non-empty list
MaxOf(s) == CHOOSE m \in {s[i] : i \in 1 .. Len(s)} : \A i \in 1 .. Len(s) : s[i] <= m

MinOf(s) == CHOOSE m \in {s[i] : i \in 1 .. Len(s)} : \A i \in 1 .. Len(s) : s[i] >= m

\* s.index(v), 0-based: the first position holding v
IndexOf(s, v) == (CHOOSE i \in 1 .. Len(s) : s[i] = v /\ \A j \in 1 .. i - 1 : s[j] # v) - 1

\* mutant: a plain list, nothing is ever evicted
DequeAppend_unbounded(s, x, m) == Append(s, x)

\* collections.deque(maxlen=m).append(x)
DequeAppend(s, x, m) ==
    IF m = 0 THEN <<>>
    ELSE IF Len(s) >= m THEN Append(Tail(s), x)
    ELSE Append(s, x)

----------------------------------------------------------------------------
(* RealTimeExtremeDetector *)

Extremo(index, price, tipo) ==
    [index |-> index, price |-> price, tipo |-> tipo, state |-> "pending"]

\* mutant: the parity test inverted
IsEvenWindow_inverted(window_size) == window_size % 2 = 1

\* window_size % 2 == 0 (Python's % is the floor modulus, as is TLA+'s)
IsEvenWindow(window_size) == window_size % 2 = 0

\* the exception __init__ raises, or "ok": the explicit parity check, then
\* deque(maxlen=...) which rejects a negative maxlen with a ValueError
CtorOutcome(window_size, confirmation_periods) ==
    IF IsEvenWindow(window_size) THEN "ValueError"
    ELSE IF window_size + confirmation_periods < 0 THEN "ValueError"
    ELSE "ok"

\* the object __init__ leaves behind when it returns
NewDetector(window_size, confirmation_periods, min_strength) ==
    [ window_size          |-> window_size,
      confirmation_periods |-> confirmation_periods,
      half_window          |-> window_size \div 2,
      min_strength         |-> min_strength,
      maxlen               |-> window_size + confirmation_periods,
      prices               |-> <<>>,
      price_index          |-> 0,
      extremos_pending     |-> <<>>,
      extremos_confirmed   |-> <<>> ]

\* no object: the constructor has not run, or it raised
NoDetector == NewDetector(0, 0, <<0, 1>>)

\* mutant: the tolerance comparison inverted (a price near the center ends the scan)
is_flat_region_inverted(window, center_idx) ==
    \A i \in 1 .. Len(window) : Abs(window[i] - window[center_idx + 1]) * 1000000 > 1

is_flat_region(window, center_idx) ==
    \* abs(price - center_price) > 1e-6 for no price of the window
    \A i \in 1 .. Len(window) : ~ (Abs(window[i] - window[center_idx + 1]) * 1000000 > 1)

is_strong_extremo(self, window, center_idx) ==
    LET center_price == window[center_idx + 1]
        other == [i \in 1 .. Len(window) - 1 |->
                     IF i <= center_idx THEN window[i] ELSE window[i + 1]]
        total == SumSeq(other)
        n     == Len(other)
        \* strength = abs(center_price - avg) / avg with avg = total / n,
        \* that is abs(n * center_price - total) / total
        dev   == Abs(n * center_price - total)
        num   == self.min_strength[1]
        den   == self.min_strength[2]
    IN  IF total = 0 THEN FALSE
        ELSE IF total > 0 THEN dev * den >= num * total
        ELSE dev * den <= num * total

\* mutant: the center compared with the earlier samples of the window only
IsMaximum_left_only(window, center_idx) ==
    \A i \in 1 .. center_idx : window[center_idx + 1] >= window[i]

IsMaximum(window, center_idx) ==
    \A i \in 1 .. Len(window) : i # center_idx + 1 => window[center_idx + 1] >= window[i]

IsMinimum(window, center_idx) ==
    \A i \in 1 .. Len(window) : i # center_idx + 1 => window[center_idx + 1] <= window[i]

\* mutant: the stream position computed without the center offset
detect_extremo_window_start(self) ==
    IF Len(self.prices) < self.window_size THEN <<>>
    ELSE
      LET window       == LastN(self.prices, self.window_size)
          center_idx   == self.half_window
          center_price == window[center_idx + 1]
          is_maximum   == IsMaximum(window, center_idx)
          is_minimum   == IsMinimum(window, center_idx)
          global_index == self.price_index - self.window_size
      IN  IF is_flat_region(window, center_idx) THEN <<>>
          ELSE IF (is_maximum \/ is_minimum) /\ ~ is_strong_extremo(self, window, center_idx)
               THEN <<>>
          ELSE IF is_maximum THEN << Extremo(global_index, center_price, "maximo") >>
          ELSE IF is_minimum THEN << Extremo(global_index, center_price, "minimo") >>
          ELSE <<>>

\* Optional[Extremo]; self already holds the new price
detect_extremo(self) ==
    IF Len(self.prices) < self.window_size THEN <<>>
    ELSE
      LET window       == LastN(self.prices, self.window_size)
          center_idx   == self.half_window
          center_price == window[center_idx + 1]
          is_maximum   == IsMaximum(window, center_idx)
          is_minimum   == IsMinimum(window, center_idx)
          global_index == self.price_index - self.window_size + center_idx
      IN  IF is_flat_region(window, center_idx) THEN <<>>
          ELSE IF (is_maximum \/ is_minimum) /\ ~ is_strong_extremo(self, window, center_idx)
               THEN <<>>
          ELSE IF is_maximum THEN << Extremo(global_index, center_price, "maximo") >>
          ELSE IF is_minimum THEN << Extremo(global_index, center_price, "minimo") >>
          ELSE <<>>

\* the prices after the extremo that the validity test reads
subsequent_prices(self, extremo) ==
    LET start_idx == Max2(0, Len(self.prices) - (self.price_index - extremo.index))
    IN  From(self.prices, start_idx + 1)

\* mutant: the two comparisons swapped between MAXIMO and MINIMO
is_extremo_still_valid_swapped(self, extremo) ==
    LET subsequent == subsequent_prices(self, extremo)
        checked    == LastN(subsequent, self.confirmation_periods)
    IN  IF subsequent = <<>> THEN TRUE
        ELSE IF extremo.tipo = "maximo"
             THEN \A i \in 1 .. Len(checked) : checked[i] >= extremo.price
        ELSE \A i \in 1 .. Len(checked) : checked[i] <= extremo.price

\* mutant: a later price equal to the extremo's price invalidates it
is_extremo_still_valid_strict(self, extremo) ==
    LET subsequent == subsequent_prices(self, extremo)
        checked    == LastN(subsequent, self.confirmation_periods)
    IN  IF subsequent = <<>> THEN TRUE
        ELSE IF extremo.tipo = "maximo"
             THEN \A i \in 1 .. Len(checked) : checked[i] < extremo.price
        ELSE \A i \in 1 .. Len(checked) : checked[i] > extremo.price

\* mutant: only the most recent price is compared with the extremo
is_extremo_still_valid_last_only(self, extremo) ==
    LET subsequent == subsequent_prices(self, extremo)
        checked    == LastN(subsequent, 1)
    IN  IF subsequent = <<>> THEN TRUE
        ELSE IF extremo.tipo = "maximo"
             THEN \A i \in 1 .. Len(checked) : checked[i] <= extremo.price
        ELSE \A i \in 1 .. Len(checked) : checked[i] >= extremo.price

is_extremo_still_valid(self, extremo) ==
    LET subsequent == subsequent_prices(self, extremo)
        checked    == LastN(subsequent, self.confirmation_periods)
    IN  IF subsequent = <<>> THEN TRUE
        ELSE IF extremo.tipo = "maximo"
             THEN \A i \in 1 .. Len(checked) : checked[i] <= extremo.price
        ELSE \A i \in 1 .. Len(checked) : checked[i] >= extremo.price

\* mutant: an extremo is due one sample later
IsDue_late(self, extremo) ==
    self.price_index - extremo.index > self.confirmation_periods

\* periods_since_detection >= confirmation_periods
IsDue(self, extremo) ==
    self.price_index - extremo.index >= self.confirmation_periods

MarkConfirmed(s) == [i \in 1 .. Len(s) |-> [s[i] EXCEPT !.state = "confirmed"]]

MarkInvalidated(s) == [i \in 1 .. Len(s) |-> [s[i] EXCEPT !.state = "invalidated"]]

\* mutant: only the confirmed extremos are removed from the pending list
check_confirmations_keeps_rejected(self) ==
    LET Confirm(e) == IsDue(self, e) /\ is_extremo_still_valid(self, e)
        Reject(e)  == IsDue(self, e) /\ ~ is_extremo_still_valid(self, e)
        Keep(e)    == ~ Confirm(e)
        confirmados == MarkConfirmed(SelectSeq(self.extremos_pending, Confirm))
    IN  [ self |-> [self EXCEPT
                      !.extremos_confirmed = self.extremos_confirmed \o confirmados,
                      !.extremos_pending   = SelectSeq(self.extremos_pending, Keep)],
          confirmados |-> confirmados,
          invalidados |-> MarkInvalidated(SelectSeq(self.extremos_pending, Reject)) ]

\* mutant: the processed extremos are not removed from the pending list
check_confirmations_no_removal(self) ==
    LET Confirm(e) == IsDue(self, e) /\ is_extremo_still_valid(self, e)
        Reject(e)  == IsDue(self, e) /\ ~ is_extremo_still_valid(self, e)
        confirmados == MarkConfirmed(SelectSeq(self.extremos_pending, Confirm))
    IN  [ self |-> [self EXCEPT
                      !.extremos_confirmed = self.extremos_confirmed \o confirmados],
          confirmados |-> confirmados,
          invalidados |-> MarkInvalidated(SelectSeq(self.extremos_pending, Reject)) ]

\* [self |-> the object afterwards, confirmados |-> the list returned,
\*  invalidados |-> the extremos set to INVALIDATED, which no list keeps]
check_confirmations(self) ==
    LET Confirm(e) == IsDue(self, e) /\ is_extremo_still_valid(self, e)
        Reject(e)  == IsDue(self, e) /\ ~ is_extremo_still_valid(self, e)
        Keep(e)    == ~ IsDue(self, e)
        confirmados == MarkConfirmed(SelectSeq(self.extremos_pending, Confirm))
    IN  [ self |-> [self EXCEPT
                      !.extremos_confirmed = self.extremos_confirmed \o confirmados,
                      !.extremos_pending   = SelectSeq(self.extremos_pending, Keep)],
          confirmados |-> confirmados,
          invalidados |-> MarkInvalidated(SelectSeq(self.extremos_pending, Reject)) ]

\* [self, found, ret, dropped]: the object after add_price(price), the result
\* of _detect_extremo in it, the list returned, and the extremos invalidated
\* mutant: the confirmations are checked on every add_price
ext_add_price_ungated(self, price) ==
    LET s1 == [self EXCEPT !.prices = DequeAppend(self.prices, price, self.maxlen),
                           !.price_index = self.price_index + 1]
        found == IF Len(s1.prices) >= s1.window_size THEN detect_extremo(s1) ELSE <<>>
        s2 == [s1 EXCEPT !.extremos_pending = s1.extremos_pending \o found]
        chk == check_confirmations(s2)
    IN  [self |-> chk.self, found |-> found, ret |-> chk.confirmados,
         dropped |-> chk.invalidados]

ext_add_price(self, price) ==
    LET s1 == [self EXCEPT !.prices = DequeAppend(self.prices, price, self.maxlen),
                           !.price_index = self.price_index + 1]
        found == IF Len(s1.prices) >= s1.window_size THEN detect_extremo(s1) ELSE <<>>
        s2 == [s1 EXCEPT !.extremos_pending = s1.extremos_pending \o found]
        chk == check_confirmations(s2)
    IN  IF Len(s2.prices) >= s2.window_size + s2.confirmation_periods
        THEN [self |-> chk.self, found |-> found, ret |-> chk.confirmados,
              dropped |-> chk.invalidados]
        ELSE [self |-> s2, found |-> found, ret |-> <<>>, dropped |-> <<>>]

----------------------------------------------------------------------------
(* Actions of the window detector *)

\* RealTimeExtremeDetector(window_size, confirmation_periods, min_strength)
Constructed(window_size, confirmation_periods, min_strength, m, d) ==
    /\ m = [ window_size |-> window_size,
             confirmation_periods |-> confirmation_periods,
             outcome |-> CtorOutcome(window_size, confirmation_periods) ]
    /\ d = IF CtorOutcome(window_size, confirmation_periods) = "ok"
           THEN NewDetector(window_size, confirmation_periods, min_strength)
           ELSE NoDetector

NotMade == [window_size |-> 0, confirmation_periods |-> 0, outcome |-> "none"]

Construct ==
    /\ made.outcome = "none"
    /\ \E ws \in CtorWindowSizes, cp \in CtorConfirmations, ms \in MinStrengths :
          Constructed(ws, cp, ms, made', det')
    /\ UNCHANGED <<ext_stream, ext_found, ext_ret, ext_dropped, zz_vars>>

ExtAddPrice ==
    /\ made.outcome = "ok"
    /\ Len(ext_stream) < MaxLen
    /\ \E price \in ExtPrices :
          LET r == ext_add_price(det, price)
          IN  /\ det' = r.self
              /\ ext_found' = r.found
              /\ ext_ret' = r.ret
              /\ ext_dropped' = ext_dropped \o r.dropped
              /\ ext_stream' = Append(ext_stream, price)
    /\ UNCHANGED <<made, zz_vars>>

\* add_price(price) with a price above every price fed so far
ExtAddHigherPrice ==
    /\ made.outcome = "ok"
    /\ Len(ext_stream) < MaxLen
    /\ \E price \in IncreasingPrices :
          /\ ext_stream # <<>> => price > ext_stream[Len(ext_stream)]
          /\ LET r == ext_add_price(det, price)
             IN  /\ det' = r.self
                 /\ ext_found' = r.found
                 /\ ext_ret' = r.ret
                 /\ ext_dropped' = ext_dropped \o r.dropped
                 /\ ext_stream' = Append(ext_stream, price)
    /\ UNCHANGED <<made, zz_vars>>

----------------------------------------------------------------------------
(* ZigzagDetector *)

\* ZigzagPoint.__init__ (the timestamp is not modelled: nothing reads it)
ZigzagPoint(index, price, direction) ==
    [index |-> index, price |-> price, direction |-> direction, confirmed |-> FALSE]

\* the stored threshold: min_change_pct / 100.0, as a fraction
StoredMinChangePct(min_change_pct) == <<min_change_pct, 100>>

\* the object __init__ and reset() leave behind
NewZigzag(min_change_pct, min_change_pips, mode, pip_value) ==
    [ min_change_pct  |-> StoredMinChangePct(min_change_pct),
      min_change_pips |-> min_change_pips,
      mode            |-> mode,
      pip_value       |-> pip_value,
      prices          |-> <<>>,
      price_index     |-> 0,
      current_trend   |-> "None",
      last_pivot      |-> <<>>,
      potential_pivot |-> <<>>,
      zigzag_points   |-> <<>> ]

\* a fraction <<n, d>> with d # 0, rewritten with a positive denominator
Frac(n, d) == IF d > 0 THEN <<n, d>> ELSE <<-n, -d>>

\* _calculate_change divides by zero (ZeroDivisionError)
calculate_change_raises(self, from_price) ==
    \/ self.mode = "percentage" /\ from_price = 0
    \/ self.mode = "pips" /\ self.pip_value[1] = 0

\* the change as a fraction, when no division by zero occurs
calculate_change(self, from_price, to_price) ==
    IF self.mode = "percentage" THEN Frac((to_price - from_price) * 100, from_price)
    ELSE IF self.mode = "pips"
         THEN Frac((to_price - from_price) * self.pip_value[2], self.pip_value[1])
    ELSE <<to_price - from_price, 1>>

\* the threshold |change| is compared with, as a fraction
SignificanceThreshold(self) ==
    IF self.mode = "percentage"
    THEN <<self.min_change_pct[1] * 100, self.min_change_pct[2]>>
    ELSE IF self.mode = "pips" THEN <<self.min_change_pips, 1>>
    ELSE self.min_change_pct

is_significant_change(self, change) ==
    LET t == SignificanceThreshold(self)
    IN  Abs(change[1]) * t[2] >= t[1] * change[2]

\* mutant: no minimum history required before a peak is looked for
is_potential_peak_no_warmup(self) ==
    LET recent_prices == LastN(self.prices, 3 + 1)
        max_index     == IndexOf(recent_prices, MaxOf(recent_prices))
    IN  max_index < Len(recent_prices) - 1

is_potential_peak(self) ==
    IF Len(self.prices) < 3 + 1 THEN FALSE
    ELSE LET recent_prices == LastN(self.prices, 3 + 1)
             max_index     == IndexOf(recent_prices, MaxOf(recent_prices))
         IN  max_index < Len(recent_prices) - 1

is_potential_valley(self) ==
    IF Len(self.prices) < 3 + 1 THEN FALSE
    ELSE LET recent_prices == LastN(self.prices, 3 + 1)
             min_index     == IndexOf(recent_prices, MinOf(recent_prices))
         IN  min_index < Len(recent_prices) - 1

\* mutant: the recent high is looked for among the last 6 prices
get_recent_high_lookback6(self) ==
    IF Len(self.prices) < 6
    THEN (IF self.prices # <<>> THEN << MaxOf(self.prices) >> ELSE <<>>)
    ELSE << MaxOf(LastN(self.prices, 6)) >>

\* Optional[float]
get_recent_high(self) ==
    IF Len(self.prices) < 5
    THEN (IF self.prices # <<>> THEN << MaxOf(self.prices) >> ELSE <<>>)
    ELSE << MaxOf(LastN(self.prices, 5)) >>

\* mutant: the position within the recent prices returned without the offset
get_recent_high_index_no_offset(self) ==
    LET recent_prices == IF Len(self.prices) < 5 THEN self.prices ELSE LastN(self.prices, 5)
    IN  IF recent_prices = <<>> THEN <<>>
        ELSE << IndexOf(recent_prices, MaxOf(recent_prices)) >>

\* Optional[int]
get_recent_high_index(self) ==
    LET recent_prices == IF Len(self.prices) < 5 THEN self.prices ELSE LastN(self.prices, 5)
        offset        == IF Len(self.prices) < 5 THEN 0 ELSE Len(self.prices) - 5
    IN  IF recent_prices = <<>> THEN <<>>
        ELSE << offset + IndexOf(recent_prices, MaxOf(recent_prices)) >>

get_recent_low(self) ==
    IF Len(self.prices) < 5
    THEN (IF self.prices # <<>> THEN << MinOf(self.prices) >> ELSE <<>>)
    ELSE << MinOf(LastN(self.prices, 5)) >>

get_recent_low_index(self) ==
    LET recent_prices == IF Len(self.prices) < 5 THEN self.prices ELSE LastN(self.prices, 5)
        offset        == IF Len(self.prices) < 5 THEN 0 ELSE Len(self.prices) - 5
    IN  IF recent_prices = <<>> THEN <<>>
        ELSE << offset + IndexOf(recent_prices, MinOf(recent_prices)) >>

\* `if x_price and x_index is not None`: a price of 0 is falsy
Truthy(price, index) == price # <<>> /\ price[1] # 0 /\ index # <<>>

\* mutant: the trend is not flipped when a pivot is confirmed
ConfirmPivot_trend_kept(self, index, price, direction, new_trend) ==
    LET pivot == [ZigzagPoint(index, price, direction) EXCEPT !.confirmed = TRUE]
    IN  [ self   |-> [self EXCEPT !.zigzag_points = Append(self.zigzag_points, pivot),
                                  !.last_pivot    = << pivot >>],
          ret    |-> << pivot >>,
          raised |-> "none" ]

\* the pivot appended, made last_pivot, and returned, with the trend flipped
ConfirmPivot(self, index, price, direction, new_trend) ==
    LET pivot == [ZigzagPoint(index, price, direction) EXCEPT !.confirmed = TRUE]
    IN  [ self   |-> [self EXCEPT !.zigzag_points = Append(self.zigzag_points, pivot),
                                  !.last_pivot    = << pivot >>,
                                  !.current_trend = new_trend],
          ret    |-> << pivot >>,
          raised |-> "none" ]

\* mutant: an add_price that returns None flips the trend
NoPivot_trend_flipped(self) ==
    [self |-> [self EXCEPT !.current_trend = IF self.current_trend = "up" THEN "down"
                                             ELSE IF self.current_trend = "down" THEN "up"
                                             ELSE "None"],
     ret |-> <<>>, raised |-> "none"]

NoPivot(self) == [self |-> self, ret |-> <<>>, raised |-> "none"]

Raise(self, exc) == [self |-> self, ret |-> <<>>, raised |-> exc]

\* [self, ret, raised]; self already holds the new price
check_for_pivot(self, current_price) ==
    IF self.last_pivot = <<>> THEN NoPivot(self)
    ELSE IF calculate_change_raises(self, self.last_pivot[1].price)
         THEN Raise(self, "ZeroDivisionError")
    ELSE IF self.current_trend = "up" THEN
        LET peak_price == get_recent_high(self)
            peak_index == get_recent_high_index(self)
        IN  IF is_potential_peak(self) /\ Truthy(peak_price, peak_index)
            THEN IF calculate_change_raises(self, peak_price[1])
                 THEN Raise(self, "ZeroDivisionError")
                 ELSE LET change_from_peak == calculate_change(self, peak_price[1], current_price)
                      IN  IF is_significant_change(self, change_from_peak)
                             /\ change_from_peak[1] < 0
                          THEN ConfirmPivot(self, peak_index[1], peak_price[1], "up", "down")
                          ELSE NoPivot(self)
            ELSE NoPivot(self)
    ELSE IF self.current_trend = "down" THEN
        LET valley_price == get_recent_low(self)
            valley_index == get_recent_low_index(self)
        IN  IF is_potential_valley(self) /\ Truthy(valley_price, valley_index)
            THEN IF calculate_change_raises(self, valley_price[1])
                 THEN Raise(self, "ZeroDivisionError")
                 ELSE LET change_from_valley == calculate_change(self, valley_price[1], current_price)
                      IN  IF is_significant_change(self, change_from_valley)
                             /\ change_from_valley[1] > 0
                          THEN ConfirmPivot(self, valley_index[1], valley_price[1], "down", "up")
                          ELSE NoPivot(self)
            ELSE NoPivot(self)
    ELSE NoPivot(self)

\* mutant: a second price equal to the first starts an UP trend
zz_add_price_tie_up(self, price) ==
    LET s1 == [self EXCEPT !.prices = Append(self.prices, price),
                           !.price_index = self.price_index + 1]
    IN  IF Len(s1.prices) = 1
        THEN NoPivot([s1 EXCEPT !.last_pivot = << ZigzagPoint(0, price, "up") >>])
        ELSE IF Len(s1.prices) = 2
        THEN IF price >= s1.prices[1]
             THEN NoPivot([s1 EXCEPT !.current_trend = "up",
                                     !.last_pivot[1].direction = "down"])
             ELSE NoPivot([s1 EXCEPT !.current_trend = "down",
                                     !.last_pivot[1].direction = "up"])
        ELSE check_for_pivot(s1, price)

\* [self, ret, raised]: the object after add_price(price), the pivot returned
\* (Optional) and the exception raised ("none" when it returns)
zz_add_price(self, price) ==
    LET s1 == [self EXCEPT !.prices = Append(self.prices, price),
                           !.price_index = self.price_index + 1]
    IN  IF Len(s1.prices) = 1
        THEN NoPivot([s1 EXCEPT !.last_pivot = << ZigzagPoint(0, price, "up") >>])
        ELSE IF Len(s1.prices) = 2
        THEN IF price > s1.prices[1]
             THEN NoPivot([s1 EXCEPT !.current_trend = "up",
                                     !.last_pivot[1].direction = "down"])
             ELSE NoPivot([s1 EXCEPT !.current_trend = "down",
                                     !.last_pivot[1].direction = "up"])
        ELSE check_for_pivot(s1, price)

get_zigzag_points(self) == self.zigzag_points

get_last_pivot(self) == self.last_pivot

\* mutant: reset() forgets to clear the trend
reset_keeps_trend(self) ==
    [self EXCEPT !.prices = <<>>, !.price_index = 0,
                 !.last_pivot = <<>>, !.potential_pivot = <<>>, !.zigzag_points = <<>>]

reset(self) ==
    [self EXCEPT !.prices = <<>>, !.price_index = 0, !.current_trend = "None",
                 !.last_pivot = <<>>, !.potential_pivot = <<>>, !.zigzag_points = <<>>]

----------------------------------------------------------------------------
(* Actions of the zigzag detector *)

ZAddPrice ==
    /\ Len(zz_stream) < ZMaxLen
    /\ \E price \in ZPrices :
          LET r == zz_add_price(zz, price)
          IN  /\ zz' = r.self
              /\ zz_ret' = r.ret
              /\ zz_raised' = r.raised
              /\ zz_stream' = Append(zz_stream, price)
    /\ UNCHANGED <<zz_was_reset, ext_vars>>

\* add_price(price) on longer streams of prices close to one another
ZAddNearPrice ==
    /\ Len(zz_stream) < ZLongLen
    /\ \E price \in ZNearPrices :
          LET r == zz_add_price(zz, price)
          IN  /\ zz' = r.self
              /\ zz_ret' = r.ret
              /\ zz_raised' = r.raised
              /\ zz_stream' = Append(zz_stream, price)
    /\ UNCHANGED <<zz_was_reset, ext_vars>>

ZReset ==
    /\ zz_stream # <<>>
    /\ zz' = reset(zz)
    /\ zz_stream' = <<>>
    /\ zz_ret' = <<>>
    /\ zz_raised' = "none"
    /\ zz_was_reset' = TRUE
    /\ UNCHANGED ext_vars

----------------------------------------------------------------------------
(* Specifications *)

\* the zigzag detector as ZigzagDetector() leaves it, idle
IdleZigzag ==
    /\ zz = NewZigzag(10, 15, "percentage", <<1, 1>>)
    /\ zz_stream = <<>>
    /\ zz_ret = <<>>
    /\ zz_raised = "none"
    /\ zz_was_reset = FALSE

IdleExt ==
    /\ made = NotMade
    /\ det = NoDetector
    /\ ext_stream = <<>>
    /\ ext_found = <<>>
    /\ ext_ret = <<>>
    /\ ext_dropped = <<>>

\* construction of the window detector, any arguments
InitC == IdleExt /\ IdleZigzag

NextC == Construct

SpecC == InitC /\ [][NextC]_vars

\* the window detector, constructed with a configuration of the documented domain
InitW ==
    /\ \E ws \in WindowSizes, cp \in ConfirmationPeriods, ms \in MinStrengths :
          Constructed(ws, cp, ms, made, det)
    /\ ext_stream = <<>>
    /\ ext_found = <<>>
    /\ ext_ret = <<>>
    /\ ext_dropped = <<>>
    /\ IdleZigzag

NextW == ExtAddPrice

SpecW == InitW /\ [][NextW]_vars

\* the window detector fed a strictly increasing stream
NextIncreasing == ExtAddHigherPrice

SpecIncreasing == InitW /\ [][NextIncreasing]_vars

\* the zigzag detector, freshly constructed
InitZ ==
    /\ IdleExt
    /\ \E mc \in ZMinChanges, mp \in ZMinChangePips, mode \in ZModes, pv \in ZPipValues :
          zz = NewZigzag(mc, mp, mode, pv)
    /\ zz_stream = <<>>
    /\ zz_ret = <<>>
    /\ zz_raised = "none"
    /\ zz_was_reset = FALSE

NextZ == ZAddPrice \/ ZReset

SpecZ == InitZ /\ [][NextZ]_vars

NextZLong == ZAddNearPrice

\* the zigzag detector on streams long enough for a pivot to leave the lookback
SpecZLong == InitZ /\ [][NextZLong]_vars

----------------------------------------------------------------------------
(* Properties *)

\* the window detector runs with window_size 3, confirmation_periods 2, min_strength 0
IsSpikeConfig ==
    /\ made.outcome = "ok"
    /\ det.window_size = 3
    /\ det.confirmation_periods = 2
    /\ det.min_strength = <<0, 1>>

SpikeStream == <<1, 1, 1, 5, 1, 1, 1>>

IsPrefix(s, t) == Len(s) <= Len(t) /\ s = SubSeq(t, 1, Len(s))

IsMaximo(e) == e.tipo = "maximo"

\* the zigzag detector runs with mode=PERCENTAGE, min_change=10
IsPercent10 == zz.mode = "percentage" /\ zz.min_change_pct = <<10, 100>>

ConfirmedPivot(index, price, direction) ==
    [index |-> index, price |-> price, direction |-> direction, confirmed |-> TRUE]

\* C1 as claimed: with mode=PERCENTAGE and min_change=10, on [100,110,90,120]
\* the ingest of 90 returns an UP pivot at index 1 (price 110) and the ingest
\* of 120 returns a DOWN pivot at index 2 (price 90).
C1_AsClaimed ==
    IsPercent10 =>
        /\ zz_stream = <<100, 110, 90>> => zz_ret = << ConfirmedPivot(1, 110, "up") >>
        /\ zz_stream = <<100, 110, 90, 120>> => zz_ret = << ConfirmedPivot(2, 90, "down") >>

\* C1 amended: with mode=PERCENTAGE and min_change=10, none of the four
\* ingests of [100,110,90,120] returns a pivot or raises, and the pivot list
\* stays empty: the trend is UP from the second sample on and never flips.
C1_NoPivotOnShortStream ==
    (IsPercent10 /\ IsPrefix(zz_stream, <<100, 110, 90, 120>>)) =>
        /\ zz_ret = <<>>
        /\ zz_raised = "none"
        /\ get_zigzag_points(zz) = <<>>
        /\ Len(zz_stream) >= 2 => zz.current_trend = "up"

C1_Witness ==
    /\ IsPercent10
    /\ zz_stream = <<100, 110, 90, 120>>
    /\ zz_ret = <<>>
    /\ zz.price_index = 4

\* C2: with window_size=3, confirmation_periods=2, min_strength=0, feeding
\* [1,1,1,5,1,1,1] confirms exactly one MAXIMUM, at sequence_index 3 with
\* price 5 (it is confirmed by the fifth ingest and stays the only one).
C2_OneMaximumOnSpike ==
    (IsSpikeConfig /\ IsPrefix(ext_stream, SpikeStream)) =>
        SelectSeq(det.extremos_confirmed, IsMaximo) =
            IF Len(ext_stream) >= 5
            THEN << [index |-> 3, price |-> 5, tipo |-> "maximo", state |-> "confirmed"] >>
            ELSE <<>>

C2_Witness ==
    /\ IsSpikeConfig
    /\ ext_stream = SpikeStream
    /\ \E i \in 1 .. Len(det.extremos_confirmed) :
          det.extremos_confirmed[i].index = 3 /\ det.extremos_confirmed[i].price = 5

\* the sample of the stream at 0-based position i
Sample(i) == ext_stream[i + 1]

\* C3 as claimed: every extremum confirmed by an ingest, at sequence_index i,
\* is followed in the stream by at least confirmation_periods samples of index
\* greater than i, none higher than a MAXIMUM and none lower than a MINIMUM.
C3_AsClaimed ==
    made.outcome = "ok" =>
        \A k \in 1 .. Len(ext_ret) :
            LET e == ext_ret[k]
                after == (e.index + 1) .. (Len(ext_stream) - 1)
            IN  /\ Cardinality(after) >= det.confirmation_periods
                /\ \A j \in after :
                      IF e.tipo = "maximo" THEN Sample(j) <= e.price
                      ELSE Sample(j) >= e.price

\* C4: any two consecutive pivots of the emission-ordered pivot list have
\* opposite directions.
C4_PivotsAlternate ==
    LET points == get_zigzag_points(zz)
    IN  \A i \in 1 .. Len(points) - 1 : points[i].direction # points[i + 1].direction

\* three pivots emitted, the last one by the latest ingest
C4_Witness ==
    /\ Len(get_zigzag_points(zz)) >= 3
    /\ zz_ret # <<>>

\* C5 as claimed: every pivot a query returns (the pivot list, the last-pivot
\* query) has confirmed = true.
C5_AsClaimed ==
    /\ \A i \in 1 .. Len(get_zigzag_points(zz)) : get_zigzag_points(zz)[i].confirmed
    /\ get_last_pivot(zz) # <<>> => get_last_pivot(zz)[1].confirmed

\* C6 as claimed: constructing the window detector with window_size <= 0 or
\* confirmation_periods <= 0 fails with a configuration error.
C6_AsClaimed ==
    (made.outcome # "none" /\ (made.window_size <= 0 \/ made.confirmation_periods <= 0)) =>
        made.outcome = "ValueError"

\* C7: construction fails for every even window_size and succeeds for every
\* odd window_size >= 3 with positive confirmation_periods.
C7_ParityDecidesConstruction ==
    made.outcome # "none" =>
        /\ (\E k \in -10 .. 10 : made.window_size = 2 * k) => made.outcome = "ValueError"
        /\ ( /\ \E k \in 1 .. 10 : made.window_size = 2 * k + 1
             /\ made.confirmation_periods > 0 ) =>
               /\ made.outcome = "ok"
               /\ det.window_size = made.window_size
               /\ det.confirmation_periods = made.confirmation_periods

C7_Witness ==
    /\ made.outcome = "ok"
    /\ made.window_size = 7
    /\ made.confirmation_periods = 4
    /\ det.half_window = 3

\* C8 as claimed: in PERCENTAGE mode an ingest whose 'from' price (the last
\* pivot's price) is zero raises no error and returns no pivot.
C8_AsClaimed ==
    ( /\ zz.mode = "percentage"
      /\ Len(zz_stream) >= 3
      /\ zz.last_pivot # <<>>
      /\ zz.last_pivot[1].price = 0 ) =>
        /\ zz_raised = "none"
        /\ zz_ret = <<>>

\* C9 as claimed: in ABSOLUTE mode a change is significant iff |to - from| is
\* at least the configured min_change itself, so a pivot is returned only when
\* the current price is at least min_change away from the pivot's price.
C9_AsClaimed ==
    (zz.mode = "absolute" /\ zz_ret # <<>>) =>
        Abs(zz_stream[Len(zz_stream)] - zz_ret[1].price) * zz.min_change_pct[2]
            >= zz.min_change_pct[1] * 100

\* the window the last add_price inspected, and its center position (1-based)
LastWindow == SubSeq(ext_stream, Len(ext_stream) - det.window_size + 1, Len(ext_stream))

CenterPos == (det.window_size - 1) \div 2 + 1

\* C10 as claimed: when a candidate is created, no other sample of its
\* centered window equals the center's value.
C10_AsClaimed ==
    (made.outcome = "ok" /\ ext_found # <<>>) =>
        \A i \in 1 .. det.window_size :
            i # CenterPos => LastWindow[i] # LastWindow[CenterPos]

\* C10 amended: a candidate is created only when the center sample is an
\* extreme value of its centered window (>= every other sample for a MAXIMUM,
\* <= every other sample for a MINIMUM) and some sample of the window differs
\* from it; other samples of the window may equal the center's value.
C10_CenterIsExtremeNotFlat ==
    (made.outcome = "ok" /\ ext_found # <<>>) =>
        LET e == ext_found[1]
        IN  /\ Len(ext_stream) >= det.window_size
            /\ e.price = LastWindow[CenterPos]
            /\ e.index = Len(ext_stream) - det.window_size + CenterPos - 1
            /\ \E i \in 1 .. det.window_size : LastWindow[i] # e.price
            /\ e.tipo = "maximo" => \A i \in 1 .. det.window_size : LastWindow[i] <= e.price
            /\ e.tipo = "minimo" => \A i \in 1 .. det.window_size : LastWindow[i] >= e.price
            /\ e.tipo \in {"maximo", "minimo"}

\* a candidate whose window holds the center's value twice
C10_Witness ==
    /\ made.outcome = "ok"
    /\ ext_found # <<>>
    /\ \E i \in 1 .. det.window_size :
          i # CenterPos /\ LastWindow[i] = LastWindow[CenterPos]

StrictlyIncreasing(s) == \A i \in 1 .. Len(s) - 1 : s[i] < s[i + 1]

\* C11: on a strictly increasing stream of any length the window detector
\* creates no candidate and confirms nothing: after every ingest no extremo
\* was detected, and the pending and confirmed lists are empty.
C11_NothingOnIncreasingStream ==
    (made.outcome = "ok" /\ StrictlyIncreasing(ext_stream)) =>
        /\ ext_found = <<>>
        /\ ext_ret = <<>>
        /\ det.extremos_pending = <<>>
        /\ det.extremos_confirmed = <<>>

\* an increasing stream long enough for the confirmation pass to have run
C11_Witness ==
    /\ made.outcome = "ok"
    /\ StrictlyIncreasing(ext_stream)
    /\ Len(ext_stream) > det.window_size + det.confirmation_periods
    /\ det.price_index = Len(ext_stream)
    /\ det.extremos_confirmed = <<>>

AllEqual(s) == \A i \in 1 .. Len(s) : s[i] = s[1]

\* C12: a fresh window detector fed only identical values (window_size of
\* them or more) produces no candidate, whatever min_strength is: nothing is
\* detected and the pending and confirmed lists stay empty.
C12_NothingOnFlatStream ==
    (made.outcome = "ok" /\ AllEqual(ext_stream)) =>
        /\ ext_found = <<>>
        /\ ext_ret = <<>>
        /\ det.extremos_pending = <<>>
        /\ det.extremos_confirmed = <<>>

\* more than window_size identical values, with min_strength 0
C12_Witness ==
    /\ made.outcome = "ok"
    /\ AllEqual(ext_stream)
    /\ Len(ext_stream) > det.window_size
    /\ det.min_strength = <<0, 1>>
    /\ det.extremos_pending = <<>>

\* the detector ZigzagDetector(...) builds with the configuration zz holds
FreshZigzag ==
    NewZigzag(zz.min_change_pct[1], zz.min_change_pips, zz.mode, zz.pip_value)

\* [self, ret, raised] after feeding the stream s to the detector fresh, one
\* add_price per sample
RECURSIVE RunFrom(_, _)
RunFrom(fresh, s) ==
    IF s = <<>> THEN [self |-> fresh, ret |-> <<>>, raised |-> "none"]
    ELSE zz_add_price(RunFrom(fresh, SubSeq(s, 1, Len(s) - 1)).self, s[Len(s)])

\* C13: after reset(), whatever was ingested before, ingesting a sequence S
\* leaves the detector in the state, and gives at every call the output, that
\* a freshly constructed detector of the same configuration gives on S.
C13_ResetEqualsFresh ==
    zz_was_reset =>
        LET fresh == RunFrom(FreshZigzag, zz_stream)
        IN  /\ zz = fresh.self
            /\ zz_ret = fresh.ret
            /\ zz_raised = fresh.raised

\* a pivot emitted on a stream ingested after a reset
C13_Witness ==
    /\ zz_was_reset
    /\ Len(zz_stream) >= 4
    /\ zz_ret # <<>>
    /\ Len(get_zigzag_points(zz)) >= 1

\* the sequence_index values of the extremos a list holds
IndexesOf(s) == {s[i].index : i \in 1 .. Len(s)}

\* no invalidated extremo is in the pending or the confirmed list
DroppedNowhere ==
    /\ IndexesOf(ext_dropped) \cap IndexesOf(det.extremos_pending) = {}
    /\ IndexesOf(ext_dropped) \cap IndexesOf(det.extremos_confirmed) = {}

\* C15: across every ingest the confirmed list of before is a prefix of the
\* confirmed list of after (each confirmed extremo keeps its index, price,
\* kind and CONFIRMED state), and an invalidated extremo is in neither the
\* pending nor the confirmed list, then or ever after.
C15_ConfirmedAppendOnly ==
    [][ /\ IsPrefix(det.extremos_confirmed, det'.extremos_confirmed)
        /\ \A i \in 1 .. Len(det'.extremos_confirmed) :
              det'.extremos_confirmed[i].state = "confirmed"
        /\ IsPrefix(ext_dropped, ext_dropped')
        /\ DroppedNowhere' ]_vars

\* an ingest that confirms an extremo after others were confirmed and one
\* was invalidated
C15_Witness ==
    /\ ext_dropped # <<>>
    /\ ext_ret # <<>>
    /\ Len(det.extremos_confirmed) > Len(ext_ret)

\* the capacity the history buffer is documented to have
Capacity == det.window_size + det.confirmation_periods

\* C16: after every ingest the history buffer holds exactly the
\* min(samples_seen, window_size + confirmation_periods) most recent prices
\* in arrival order, so it never exceeds that capacity and what is evicted
\* is the oldest price.
C16_BufferHoldsMostRecent ==
    made.outcome = "ok" =>
        LET seen == Len(ext_stream)
            kept == IF seen <= Capacity THEN seen ELSE Capacity
        IN  /\ det.price_index = seen
            /\ Len(det.prices) = kept
            /\ \A i \in 1 .. kept : det.prices[i] = ext_stream[seen - kept + i]

\* more samples seen than the buffer holds
C16_Witness ==
    /\ made.outcome = "ok"
    /\ Len(ext_stream) >= Capacity + 2
    /\ Len(det.prices) = Capacity
    /\ ext_stream[1] # ext_stream[Len(ext_stream) - Capacity + 1]

\* the pivot test of the claims, read off the stream: an extreme value of the
\* trailing 4-sample window lies strictly before the window's last position
MaxBeforeLast(s) ==
    LET w == LastN(s, 4) IN \E i \in 1 .. Len(w) - 1 : w[i] = MaxOf(w)

MinBeforeLast(s) ==
    LET w == LastN(s, 4) IN \E i \in 1 .. Len(w) - 1 : w[i] = MinOf(w)

\* the change from a recent extreme to the current price is defined,
\* significant, and of the given sign (-1 or 1)
SignificantMove(from_price, to_price, sign) ==
    /\ ~ calculate_change_raises(zz, from_price)
    /\ is_significant_change(zz, calculate_change(zz, from_price, to_price))
    /\ calculate_change(zz, from_price, to_price)[1] * sign > 0

\* the step appended and emitted a pivot of that direction and price, lying
\* at a position of the last 5 samples of s that holds that price, made it
\* last_pivot and set the trend
PivotEmitted(s, direction, price, new_trend) ==
    /\ zz_raised' = "none"
    /\ zz_ret' # <<>>
    /\ zz_ret'[1].direction = direction
    /\ zz_ret'[1].price = price
    /\ zz_ret'[1].confirmed
    /\ zz_ret'[1].index + 1 \in Max2(1, Len(s) - 4) .. Len(s)
    /\ s[zz_ret'[1].index + 1] = price
    /\ zz'.zigzag_points = Append(zz.zigzag_points, zz_ret'[1])
    /\ zz'.last_pivot = zz_ret'
    /\ zz'.current_trend = new_trend

\* C17 as claimed: while the trend is UP and at least three samples precede
\* the current one, whenever the maximum of the trailing 4-sample window lies
\* strictly before its last position and the change from the recent high
\* (maximum of the last 5 samples) to the current price is significant and
\* negative, the ingest appends and emits an UP pivot at that high's position
\* and price, sets it as last_pivot and flips the trend to DOWN.
C17_AsClaimed ==
    [][ LET s == zz_stream'
        IN  ( /\ Len(s) = Len(zz_stream) + 1
              /\ Len(zz_stream) >= 3
              /\ zz.current_trend = "up"
              /\ MaxBeforeLast(s)
              /\ SignificantMove(MaxOf(LastN(s, 5)), s[Len(s)], -1) )
            => PivotEmitted(s, "up", MaxOf(LastN(s, 5)), "down") ]_vars

\* C18 as claimed: while the trend is DOWN and at least three samples precede
\* the current one, whenever the minimum of the trailing 4-sample window lies
\* strictly before its last position and the change from the recent low
\* (minimum of the last 5 samples, a low of price 0 included) to the current
\* price is significant and positive, the ingest appends and emits a DOWN
\* pivot at that low's position and price, sets it as last_pivot and flips
\* the trend to UP.
C18_AsClaimed ==
    [][ LET s == zz_stream'
        IN  ( /\ Len(s) = Len(zz_stream) + 1
              /\ Len(zz_stream) >= 3
              /\ zz.current_trend = "down"
              /\ MinBeforeLast(s)
              /\ SignificantMove(MinOf(LastN(s, 5)), s[Len(s)], 1) )
            => PivotEmitted(s, "down", MinOf(LastN(s, 5)), "up") ]_vars

\* the last window's center is a MAXIMUM/MINIMUM candidate before the
\* strength filter: an extreme value of a window that is not flat
CenterIsCandidate ==
    /\ made.outcome = "ok"
    /\ Len(ext_stream) >= det.window_size
    /\ \E i \in 1 .. det.window_size : LastWindow[i] # LastWindow[CenterPos]
    /\ \/ \A i \in 1 .. det.window_size : LastWindow[i] <= LastWindow[CenterPos]
       \/ \A i \in 1 .. det.window_size : LastWindow[i] >= LastWindow[CenterPos]

\* the sum of the window values other than the center (the mean times their number)
OthersTotal == SumSeq(LastWindow) - LastWindow[CenterPos]

\* C19 as claimed: the strength filter rejects a MAXIMUM/MINIMUM candidate
\* iff the mean of the other window values is exactly zero or
\* |center - mean| / |mean| < min_strength; every other candidate, one with a
\* negative mean included, passes.
C19_AsClaimed ==
    CenterIsCandidate =>
        LET n   == det.window_size - 1
            dev == Abs(n * LastWindow[CenterPos] - OthersTotal)
        IN  (ext_found = <<>>) <=>
                \/ OthersTotal = 0
                \/ dev * det.min_strength[2] < det.min_strength[1] * Abs(OthersTotal)

\* the stream positions the detector holds an extremo for, whatever its fate
KnownIndexes(d, dropped) ==
    IndexesOf(d.extremos_pending) \cup IndexesOf(d.extremos_confirmed)
        \cup IndexesOf(dropped)

\* C20: every ingest with samples_seen >= window_size creates at most one
\* candidate, always for the sample at stream position
\* samples_seen - window_size + window_size \div 2 (the center of the most
\* recent window) and with that sample's price; its kind is MAXIMUM exactly
\* when the center is >= every other window value and MINIMUM exactly when it
\* is <= every other one, and no candidate is created when the center lies
\* strictly inside the window's range or the window is flat.
C20_OneCandidateAtCenter ==
    [][ ( /\ made.outcome = "ok"
          /\ Len(ext_stream') = Len(ext_stream) + 1
          /\ Len(ext_stream') >= det.window_size )
        => LET seen   == Len(ext_stream')
               ws     == det.window_size
               w      == SubSeq(ext_stream', seen - ws + 1, seen)
               pos    == seen - ws + ws \div 2
               center == ext_stream'[pos + 1]
               fresh  == KnownIndexes(det', ext_dropped') \ KnownIndexes(det, ext_dropped)
               flat   == \A i \in 1 .. ws : w[i] = center
               inside == (\E i \in 1 .. ws : w[i] > center) /\ (\E i \in 1 .. ws : w[i] < center)
           IN  /\ Len(ext_found') <= 1
               /\ fresh = {ext_found'[i].index : i \in 1 .. Len(ext_found')}
               /\ fresh \subseteq {pos}
               /\ ext_found' # <<>> =>
                     /\ ext_found'[1].index = pos
                     /\ ext_found'[1].price = center
                     /\ ext_found'[1].tipo \in {"maximo", "minimo"}
                     /\ ext_found'[1].tipo = "maximo" <=> \A i \in 1 .. ws : w[i] <= center
                     /\ ext_found'[1].tipo = "minimo" <=> \A i \in 1 .. ws : w[i] >= center
               /\ (flat \/ inside) => ext_found' = <<>> /\ fresh = {} ]_vars

\* a MINIMUM candidate created for the center of a window that is not the
\* first one, so that its stream position differs from its window position
C20_Witness ==
    /\ made.outcome = "ok"
    /\ Len(ext_stream) > det.window_size
    /\ ext_found # <<>>
    /\ ext_found[1].tipo = "minimo"
    /\ ext_found[1].index = Len(ext_stream) - det.window_size + det.window_size \div 2

\* the stream positions (1-based) of the most recent cp samples that follow
\* the extremo e in the stream s
RecentFollowers(s, e, cp) ==
    Max2(e.index + 2, Len(s) - cp + 1) .. Len(s)

\* none of those samples exceeds a MAXIMUM's price / falls below a MINIMUM's
HoldsAgainstFollowers(s, e, cp) ==
    \A j \in RecentFollowers(s, e, cp) :
        IF e.tipo = "maximo" THEN s[j] <= e.price ELSE s[j] >= e.price

\* C21: an ingest that resolves a pending extremo confirms it iff none of the
\* most recent confirmation_periods samples following it exceeds (MAXIMUM) or
\* falls below (MINIMUM) its price, a sample equal to the price not counting
\* against it; otherwise the extremo is invalidated.
C21_ResolvedByRecentFollowers ==
    [][ (made.outcome = "ok" /\ Len(ext_stream') = Len(ext_stream) + 1) =>
          /\ \A i \in 1 .. Len(ext_ret') :
                /\ ext_ret'[i].state = "confirmed"
                /\ HoldsAgainstFollowers(ext_stream', ext_ret'[i], det.confirmation_periods)
          /\ \A i \in Len(ext_dropped) + 1 .. Len(ext_dropped') :
                /\ ext_dropped'[i].state = "invalidated"
                /\ ~ HoldsAgainstFollowers(ext_stream', ext_dropped'[i], det.confirmation_periods)
      ]_vars

\* an extremo confirmed although one of the samples checked equals its price,
\* in a stream where another extremo was invalidated
C21_Witness ==
    /\ made.outcome = "ok"
    /\ ext_dropped # <<>>
    /\ \E i \in 1 .. Len(ext_ret) :
          \E j \in RecentFollowers(ext_stream, ext_ret[i], det.confirmation_periods) :
              ext_stream[j] = ext_ret[i].price

\* no two extremos of the list are for the same stream position
NoRepeat(s) == Cardinality(IndexesOf(s)) = Len(s)

\* C22: an extremo appended to the pending list leaves it exactly once, into
\* the confirmed list or into invalidation and never back; and after every
\* ingest with samples_seen >= window_size + confirmation_periods no extremo
\* of age samples_seen - index >= confirmation_periods is still pending.
C22_PendingLeftOnce ==
    [][ (made.outcome = "ok" /\ Len(ext_stream') = Len(ext_stream) + 1) =>
          LET pending  == IndexesOf(det.extremos_pending)
              pending2 == IndexesOf(det'.extremos_pending)
              settled  == IndexesOf(det.extremos_confirmed) \cup IndexesOf(ext_dropped)
              offered  == pending \cup IndexesOf(ext_found')
              gone     == offered \ pending2
          IN  /\ pending2 \subseteq offered
              /\ pending2 \cap settled = {}
              /\ NoRepeat(det'.extremos_pending)
              /\ NoRepeat(det'.extremos_confirmed \o ext_dropped')
              /\ IndexesOf(det'.extremos_confirmed) \cup IndexesOf(ext_dropped') = settled \cup gone
              /\ settled \cap gone = {}
              /\ Len(ext_stream') >= det.window_size + det.confirmation_periods =>
                    \A i \in 1 .. Len(det'.extremos_pending) :
                        Len(ext_stream') - det'.extremos_pending[i].index < det.confirmation_periods
      ]_vars

\* enough samples seen, one extremo still pending because it is too young,
\* others already confirmed and invalidated
C22_Witness ==
    /\ made.outcome = "ok"
    /\ Len(ext_stream) >= det.window_size + det.confirmation_periods
    /\ det.extremos_pending # <<>>
    /\ det.extremos_confirmed # <<>>
    /\ ext_dropped # <<>>

\* C23: nothing is confirmed before window_size + confirmation_periods
\* samples have been seen: every ingest with fewer samples seen returns an
\* empty list and leaves the confirmed list empty, whatever the age of the
\* pending extremos.
C23_NothingConfirmedEarly ==
    (made.outcome = "ok" /\ Len(ext_stream) < det.window_size + det.confirmation_periods) =>
        /\ ext_ret = <<>>
        /\ det.extremos_confirmed = <<>>
        /\ ext_dropped = <<>>

\* too few samples seen, and a pending extremo that has reached its
\* confirmation age and would be confirmed by the samples after it
C23_Witness ==
    /\ made.outcome = "ok"
    /\ Len(ext_stream) < det.window_size + det.confirmation_periods
    /\ \E i \in 1 .. Len(det.extremos_pending) :
          /\ IsDue(det, det.extremos_pending[i])
          /\ is_extremo_still_valid(det, det.extremos_pending[i])

\* the direction opposite to a trend
Opposite(trend) == IF trend = "up" THEN "down" ELSE "up"

\* C24: zigzag start-up. The first ingest seeds last_pivot at index 0 with
\* the first price, leaves current_trend undefined and emits nothing; the
\* second ingest sets current_trend to UP if the second price is strictly
\* greater than the first and to DOWN otherwise (a tie gives DOWN), gives the
\* seeded pivot the opposite direction and emits nothing. current_trend is
\* undefined exactly while fewer than two samples have been seen.
C24_StartUp ==
    /\ (zz.current_trend = "None") <=> (Len(zz_stream) < 2)
    /\ Len(zz_stream) = 0 => zz.last_pivot = <<>>
    /\ Len(zz_stream) \in {1, 2} =>
          /\ zz_ret = <<>>
          /\ zz_raised = "none"
          /\ zz.zigzag_points = <<>>
          /\ Len(zz.last_pivot) = 1
          /\ zz.last_pivot[1].index = 0
          /\ zz.last_pivot[1].price = zz_stream[1]
    /\ Len(zz_stream) = 2 =>
          /\ zz.current_trend = (IF zz_stream[2] > zz_stream[1] THEN "up" ELSE "down")
          /\ zz.last_pivot[1].direction = Opposite(zz.current_trend)

\* two equal samples seen: the trend is DOWN and the seed is an UP pivot
C24_Witness ==
    /\ Len(zz_stream) = 2
    /\ zz_stream[1] = zz_stream[2]
    /\ zz.current_trend = "down"
    /\ zz.last_pivot[1].direction = "up"

\* C25: an ingest from the third sample onward that emits no pivot leaves
\* current_trend, last_pivot and the confirmed pivot list unchanged, only the
\* price history and the sample counter advance; so from the third sample
\* onward current_trend changes only in an ingest that emits a pivot.
C25_NoPivotNoChange ==
    [][ (Len(zz_stream) >= 2 /\ Len(zz_stream') = Len(zz_stream) + 1) =>
          /\ zz_ret' = <<>> =>
                zz' = [zz EXCEPT !.prices = Append(zz.prices, zz_stream'[Len(zz_stream')]),
                                 !.price_index = zz.price_index + 1]
          /\ zz'.current_trend # zz.current_trend => zz_ret' # <<>>
      ]_vars

\* a pivot was emitted earlier and the last ingest returned none
C25_Witness ==
    /\ Len(zz_stream) >= 4
    /\ zz_ret = <<>>
    /\ zz_raised = "none"
    /\ zz.zigzag_points # <<>>
    /\ zz.price_index = Len(zz_stream)

----------------------------------------------------------------------------
(* The zigzag detector over a bounded buffer, as the specification proposes *)

\* the capacity of the ring buffer: the longest lookback the detector uses
RingCapacity == 5

\* a pivot of the buffer-relative position k, at its stream position
Rebased(pivot, shift) == [pivot EXCEPT !.index = pivot.index + shift]

\* add_price on a detector whose prices field is a ring buffer of the
\* RingCapacity most recent prices: the oldest price is evicted before the
\* new one is stored, the detector's logic runs on the buffer, and a position
\* found in the buffer is turned into a stream position with the sample
\* counter
ring_add_price(self, price) ==
    LET room  == [self EXCEPT !.prices = LastN(self.prices, RingCapacity - 1)]
        r     == zz_add_price(room, price)
        shift == r.self.price_index - Len(r.self.prices)
    IN  IF r.ret = <<>> \/ shift = 0 THEN r
        ELSE [ self   |-> [r.self EXCEPT
                              !.last_pivot = << Rebased(r.ret[1], shift) >>,
                              !.zigzag_points =
                                  Append(self.zigzag_points, Rebased(r.ret[1], shift))],
               ret    |-> << Rebased(r.ret[1], shift) >>,
               raised |-> r.raised ]

\* [self, ret, raised] after feeding the stream s to the ring-buffer detector
RECURSIVE RingRunFrom(_, _)
RingRunFrom(fresh, s) ==
    IF s = <<>> THEN [self |-> fresh, ret |-> <<>>, raised |-> "none"]
    ELSE ring_add_price(RingRunFrom(fresh, SubSeq(s, 1, Len(s) - 1)).self, s[Len(s)])

\* C26: a detector that keeps only the 5 most recent prices and the sample
\* counter emits, at every ingest of every input sequence, the same pivot
\* (index, price, direction) or nothing as the detector with the full
\* history, and keeps the same trend, last pivot and pivot list.
C26_RingBufferEquivalent ==
    LET ring == RingRunFrom(FreshZigzag, zz_stream)
    IN  /\ ring.ret = zz_ret
        /\ ring.raised = zz_raised
        /\ ring.self.prices = LastN(zz.prices, RingCapacity)
        /\ Len(ring.self.prices) <= RingCapacity
        /\ ring.self = [zz EXCEPT !.prices = LastN(zz.prices, RingCapacity)]

\* a pivot emitted when the full history is longer than the ring buffer, at
\* a position that is not its position in the buffer
C26_Witness ==
    /\ Len(zz.prices) > RingCapacity
    /\ zz_ret # <<>>
    /\ zz_ret[1].index >= Len(zz.prices) - RingCapacity

\* C27: every pivot the zigzag detector emits carries the price of the
\* stream sample at its own index, and that index is one of the 5 most recent
\* samples and strictly earlier than the sample whose ingest emitted it.
C27_PivotIsRecentSample ==
    /\ zz_ret # <<>> =>
          LET n == Len(zz_stream)
              k == zz_ret[1].index
          IN  /\ k >= 0
              /\ k >= n - 5
              /\ k < n - 1
              /\ zz_stream[k + 1] = zz_ret[1].price
    /\ \A i \in 1 .. Len(zz.zigzag_points) :
          /\ zz.zigzag_points[i].index \in 0 .. Len(zz_stream) - 2
          /\ zz_stream[zz.zigzag_points[i].index + 1] = zz.zigzag_points[i].price

\* a pivot emitted for the oldest of the 5 most recent samples of a stream
\* longer than 5
C27_Witness ==
    /\ Len(zz_stream) > 5
    /\ zz_ret # <<>>
    /\ zz_ret[1].index = Len(zz_stream) - 5
    /\ zz_ret[1].direction = "up"

\* C28 as claimed: in the emission-ordered pivot list the index is strictly
\* increasing, each pivot lying at a stream position strictly after the
\* position of the pivot emitted before it.
C28_AsClaimed ==
    \A i \in 1 .. Len(zz.zigzag_points) - 1 :
        zz.zigzag_points[i].index < zz.zigzag_points[i + 1].index

AllPositive(s) == \A i \in 1 .. Len(s) : s[i] > 0

\* C29 as claimed: on a stream of positive prices, in every mode, every UP
\* pivot of the pivot list has a price strictly greater than the DOWN pivot
\* right before it, and every DOWN pivot a price strictly lower than the UP
\* pivot right before it.
C29_AsClaimed ==
    AllPositive(zz_stream) =>
        \A i \in 1 .. Len(zz.zigzag_points) - 1 :
            LET a == zz.zigzag_points[i]
                b == zz.zigzag_points[i + 1]
            IN  /\ (a.direction = "down" /\ b.direction = "up") => b.price > a.price
                /\ (a.direction = "up" /\ b.direction = "down") => b.price < a.price

\* C30: an extremo at index i confirmed by the ingest at which samples_seen
\* is n bounds every sample of stream index i - window_size \div 2 .. n - 1:
\* a MAXIMUM's price is >= each of them, a MINIMUM's <= each of them, so no
\* sample between the extremo and the confirming sample escapes the check.
C30_ConfirmedBoundsItsSpan ==
    made.outcome = "ok" =>
        \A k \in 1 .. Len(ext_ret) :
            LET e == ext_ret[k]
                n == Len(ext_stream)
            IN  /\ e.index - det.window_size \div 2 >= 0
                /\ \A j \in e.index - det.window_size \div 2 .. n - 1 :
                      IF e.tipo = "maximo" THEN ext_stream[j + 1] <= e.price
                      ELSE ext_stream[j + 1] >= e.price

\* a confirmation that came at least two samples after the extremo's window
\* was complete, neither of the two being among its neighbours
C30_Witness ==
    /\ made.outcome = "ok"
    /\ \E k \in 1 .. Len(ext_ret) :
          /\ Len(ext_stream) - 1 >= ext_ret[k].index + det.window_size \div 2 + 2
          /\ ext_ret[k].tipo = "maximo"
          /\ ext_stream[Len(ext_stream)] < ext_ret[k].price

\* C31: the pending list stays bounded: after every ingest it holds at most
\* confirmation_periods extremos, in strictly increasing index.
C31_PendingBounded ==
    made.outcome = "ok" =>
        /\ Len(det.extremos_pending) <= det.confirmation_periods
        /\ \A i \in 1 .. Len(det.extremos_pending) - 1 :
              det.extremos_pending[i].index < det.extremos_pending[i + 1].index

\* the bound is met: as many pending extremos as confirmation_periods, more
\* than one
C31_Witness ==
    /\ made.outcome = "ok"
    /\ det.confirmation_periods >= 2
    /\ Len(det.extremos_pending) = det.confirmation_periods

====
